---- MODULE Spec2Model ----
(***************************************************************************)
(* bevy_previous: previous-value tracking of a component T.                *)
(*                                                                         *)
(* The crate registers one system, update::<T>, per call of                *)
(* PreviousPlugin::build, in the schedule the plugin stores.  The system   *)
(* queries the entities that carry T and either lack Previous<T> or whose  *)
(* T changed since the system last ran, and queues, for each, the command   *)
(* insert(Previous::<T>::new(t.clone())).  The host (bevy) runs the        *)
(* systems of a schedule one after the other or in parallel where their    *)
(* accesses allow, keeps a change flag per system and component, and       *)
(* applies a system's command queue after the system ran and before the    *)
(* run of the schedule is over.                                            *)
(***************************************************************************)
EXTENDS Naturals, Sequences, FiniteSets

\* ------------------------------------------------------------- bounds
NumEntities == 1
MaxVal == 2
MaxPlugins == 2
MaxSystems == 2
MaxParams == 2
MaxFields == 1

\* ------------------------------------------------------------- domains
Entities == 1..NumEntities
Val == 1..MaxVal
\* Option::None of a component: the entity does not carry it.
NoVal == 0
\* Schedule labels: bevy's Last and FixedLast, and a user-defined label.
Labels == {"Last", "FixedLast", "AfterGameLogic"}
\* The default of Previous's second type parameter, `S: ... = Last`.
DefaultS == "Last"
\* `Previous<T>` as update names it, in the filter and in the insert:
\* the second parameter is omitted, so it is the default one.
PreviousT == DefaultS

VARIABLES
    phase,      \* "assembly": the App is being built; "running": App::run;
                \* "panicked": a command panicked, the App is gone
    plugins,    \* the PreviousPlugin values constructed, [schedule]
    installed,  \* history: the plugins whose build was called
    systems,    \* the systems the App holds, [schedule], in add_systems order
    running,    \* the schedule being run, or "none"
    ran,        \* the systems that have run in the current run
    queue,      \* per system, its Commands queue: Seq of [entity, value]
    alive,      \* per entity: "unborn", "alive", "dead"
    t,          \* per entity: its T value, NoVal when it carries none
    prev,       \* per entity and label S: its Previous<T,S> value, or NoVal
    changed,    \* per system and entity: Changed<T> as that system sees it
    snap,       \* history: T, Previous and change flags when the run began
    touched,    \* history: entities another operation acted on in this run
    written,    \* history: per entity, the labels S whose Previous<T,S>
                \* was written in this run
    seen,       \* history: per label S and entity, the T value the entity
                \* carried all through the latest run of S in which an
                \* update system ran, NoVal when it carried none or when
                \* another operation acted on it during that run
    read,       \* history: per system, what it found when it ran in this run
    gprev,      \* reference: prev as it is when only the first system
                \* registered in each schedule exists
    gqueue,     \* reference: the command queues of those systems
    defaulted,  \* history: the plugins PreviousPlugin::default() made
    input,      \* the DeriveInput handed to #[derive(DefaultSchedule)]
    output      \* what the derive macro returned for it

app == <<phase, plugins, installed, systems>>
derive == <<input, output>>
hist == <<snap, written, seen, read>>
vars == <<phase, plugins, installed, systems, running, ran, queue, alive, t,
          prev, changed, snap, touched, written, seen, read, gprev, gqueue,
          defaulted, input, output>>

SystemIds == 1..MaxSystems

\* The systems registered in schedule l.
SystemsAt(l) == {i \in DOMAIN systems : systems[i].schedule = l}

\* System i is the first one registered in its schedule.
Primary(i) == \A j \in 1..(i - 1) : systems[j].schedule # systems[i].schedule

NoStore == [e \in Entities |-> [l \in Labels |-> NoVal]]

NoSnap ==
    [t |-> [e \in Entities |-> NoVal],
     prev |-> NoStore,
     changed |-> {},
     alive |-> {}]

NoRead ==
    [t |-> [e \in Entities |-> NoVal],
     had |-> {},
     changed |-> {},
     touched |-> {},
     matched |-> {}]

\* ------------------------------------------------------------- the derive macro

\* Option<X>: None or Some(x), as a sequence of at most one element.
Opt(x) == {<<>>, <<x>>}

\* syn's GenericParam of a DeriveInput, one set per variant.
TypeParams(id) ==
    [kind : {"type"}, ident : {id}, attrs : Opt("#[attr]"),
     bounds : Opt("Bound"), default : Opt("Dflt"), ty : {<<>>}]

LifetimeParams(id) ==
    [kind : {"lifetime"}, ident : {id}, attrs : Opt("#[attr]"),
     bounds : Opt("'outlives"), default : {<<>>}, ty : {<<>>}]

ConstParams(id) ==
    [kind : {"const"}, ident : {id}, attrs : Opt("#[attr]"),
     bounds : {<<>>}, default : Opt("0"), ty : {<<"usize">>}]

GenericParams(id) == TypeParams(id) \cup LifetimeParams(id) \cup ConstParams(id)

\* The names of the parameters of a declaration, in order.
ParamNames == <<"A", "B", "C", "D">>

\* input.generics.params: every list of at most MaxParams parameters.
ParamLists ==
    UNION {{f \in [1..n -> UNION {GenericParams(ParamNames[k]) : k \in 1..n}] :
                \A k \in 1..n : f[k].ident = ParamNames[k]} : n \in 0..MaxParams}

\* input.data: a unit struct, a struct with named or unnamed fields (none
\* or some), an enum, a union.
Shapes ==
    {[data |-> "struct", fields |-> "unit", nfields |-> 0],
     [data |-> "enum", fields |-> "none", nfields |-> 0],
     [data |-> "union", fields |-> "named", nfields |-> 1]}
    \cup [data : {"struct"}, fields : {"named", "unnamed"},
          nfields : 0..MaxFields]

\* The items #[derive(DefaultSchedule)] can be put on.
DeriveInputs ==
    [ident : {"Marker"}, shape : Shapes, params : ParamLists,
     where : Opt("where")]

NoInput == [ident |-> "none"]
NoOutput == [errors |-> <<>>, impls |-> <<>>]

\* err!(span => message): the tokens of a compile_error!, and nothing else.
err(message) == [errors |-> <<message>>, impls |-> <<>>]

\* Mutant: every struct is taken, whatever its fields.
IsAnyStruct(in) == in.shape.data = "struct"

\* The first arm of the match: Data::Struct(DataStruct { fields: Fields::Unit, .. }).
IsUnitStruct(in) == in.shape.data = "struct" /\ in.shape.fields = "unit"

\* The closure of unbounded_params_iter: what it clears in a parameter.
Unbounded(g) ==
    CASE g.kind = "type" -> [g EXCEPT !.bounds = <<>>, !.attrs = <<>>]
      [] g.kind = "lifetime" -> [g EXCEPT !.bounds = <<>>, !.attrs = <<>>]
      [] g.kind = "const" -> [g EXCEPT !.attrs = <<>>]

\* unbounded_params: the parameters pushed one by one, in order.
unbounded_params(params) == [k \in DOMAIN params |-> Unbounded(params[k])]

\* The impl the quote! blocks emit:
\* impl<generics> ::bevy_previous::DefaultSchedule for self_ty<args> where
\* { fn default() -> Self { returns } }
Impl(in) ==
    [generics |-> in.params,
     trait |-> "::bevy_previous::DefaultSchedule",
     self_ty |-> in.ident,
     args |-> IF in.params = <<>> THEN <<>> ELSE unbounded_params(in.params),
     where |-> IF in.params = <<>> THEN <<>> ELSE in.where,
     returns |-> in.ident]

\* #[proc_macro_derive(DefaultSchedule)] fn default_schedule(input)
default_schedule(in) ==
    IF IsUnitStruct(in)
    THEN [errors |-> <<>>, impls |-> <<Impl(in)>>]
    ELSE err("The macro only works on unit structs.")

\* The compiler expands the derive on the item it is put on.
Derive ==
    /\ input = NoInput
    /\ \E in \in DeriveInputs :
          /\ input' = in
          /\ output' = default_schedule(in)
    /\ UNCHANGED <<app, defaulted, running, ran, queue, alive, t, prev,
                   changed, touched, hist, gprev, gqueue>>

\* ------------------------------------------------------------- DefaultSchedule

\* The three invocations of default_schedule_impls!.
default_schedule_impls ==
    <<"PreStartup", "Startup", "PostStartup">>
    \o <<"Main", "First", "PreUpdate", "Update", "PostUpdate", "Last">>
    \o <<"FixedMain", "FixedFirst", "FixedPreUpdate", "FixedUpdate",
         "FixedPostUpdate", "FixedLast">>

\* A label of the user's: #[derive(ScheduleLabel, DefaultSchedule, ...)]
\* struct AfterGameLogic;
UnitStruct(id) ==
    [ident |-> id, shape |-> [data |-> "struct", fields |-> "unit",
                              nfields |-> 0],
     params |-> <<>>, where |-> <<>>]

UserLabels == {"AfterGameLogic"}

\* The impls of DefaultSchedule for type S: one per name in the macro's lists,
\* and what the derive emits for a label of the user's.
DefaultScheduleImpls(S) ==
    {[self_ty |-> S, returns |-> S] :
        k \in {k \in DOMAIN default_schedule_impls :
                  default_schedule_impls[k] = S}}
    \cup (IF S \in UserLabels
          THEN {[self_ty |-> im.self_ty, returns |-> im.returns] :
                   im \in {default_schedule(UnitStruct(S)).impls[k] :
                             k \in DOMAIN default_schedule(UnitStruct(S)).impls}}
          ELSE {})

\* Mutant: every impl returns the default label.
DefaultScheduleLast(S) == DefaultS

\* <S as DefaultSchedule>::default(): what the impl for S returns.
DefaultSchedule(S) == (CHOOSE im \in DefaultScheduleImpls(S) : TRUE).returns

\* The world before anything was spawned and before any schedule ran.
World0 ==
    /\ running = "none"
    /\ ran = {}
    /\ queue = [i \in SystemIds |-> <<>>]
    /\ alive = [e \in Entities |-> "unborn"]
    /\ t = [e \in Entities |-> NoVal]
    /\ prev = NoStore
    /\ changed = [i \in SystemIds |-> [e \in Entities |-> FALSE]]
    /\ snap = NoSnap
    /\ touched = {}
    /\ written = [e \in Entities |-> {}]
    /\ seen = [l \in Labels |-> [e \in Entities |-> NoVal]]
    /\ read = [i \in SystemIds |-> NoRead]
    /\ gprev = NoStore
    /\ gqueue = [i \in SystemIds |-> <<>>]
    /\ defaulted = {}
    /\ input = NoInput
    /\ output = NoOutput

\* The App as App::new() leaves it: no plugin, no system of this crate.
InitApp ==
    /\ phase = "assembly"
    /\ plugins = <<>>
    /\ installed = {}
    /\ systems = <<>>
    /\ World0

\* ------------------------------------------------------------- assembly

\* PreviousPlugin::new(schedule)
PluginNew(schedule) == [schedule |-> schedule]

\* Mutant: build registers the system in the default schedule.
BuildScheduleDefault(plugin) == DefaultS

\* The schedule `build` hands to add_systems: self.schedule.clone().
BuildSchedule(plugin) == plugin.schedule

\* PreviousPlugin::default(): Self::new(S::default())
PluginDefault(S) == PluginNew(DefaultSchedule(S))

\* PreviousPlugin::<T, S>::default() is called: S has a DefaultSchedule impl.
Default(S) ==
    /\ phase = "assembly"
    /\ Len(plugins) < MaxPlugins
    /\ DefaultScheduleImpls(S) # {}
    /\ plugins' = Append(plugins, PluginDefault(S))
    /\ defaulted' = defaulted \cup {Len(plugins) + 1}
    /\ UNCHANGED derive
    /\ UNCHANGED <<phase, installed, systems, running, ran, queue, alive, t,
                   prev, changed, touched, hist, gprev, gqueue>>

New(l) ==
    /\ phase = "assembly"
    /\ Len(plugins) < MaxPlugins
    /\ plugins' = Append(plugins, PluginNew(l))
    /\ UNCHANGED <<derive, defaulted>>
    /\ UNCHANGED <<phase, installed, systems, running, ran, queue, alive, t,
                   prev, changed, touched, hist, gprev, gqueue>>

\* Plugin::build(&self, app): app.add_systems(self.schedule.clone(), update::<T>)
Build(p) ==
    /\ phase = "assembly"
    /\ p \in DOMAIN plugins
    /\ Len(systems) < MaxSystems
    /\ systems' = Append(systems, [schedule |-> BuildSchedule(plugins[p])])
    /\ installed' = installed \cup {p}
    /\ UNCHANGED <<derive, defaulted>>
    /\ UNCHANGED <<phase, plugins, running, ran, queue, alive, t, prev,
                   changed, touched, hist, gprev, gqueue>>

\* App::run(): the assembly is over, the host starts running schedules.
Run ==
    /\ phase = "assembly"
    /\ phase' = "running"
    /\ UNCHANGED <<derive, defaulted>>
    /\ UNCHANGED <<plugins, installed, systems, running, ran, queue, alive, t,
                   prev, changed, touched, hist, gprev, gqueue>>

\* The Apps an assembly can produce in which every plugin was built once,
\* in the order of construction: the systems are what `build` registered.
LabelSeqs == UNION {[1..n -> Labels] : n \in 0..MaxSystems}

Registered(ps) == [i \in DOMAIN ps |-> [schedule |-> BuildSchedule(ps[i])]]

\* The state at App::run() of an App assembled that way.
Init ==
    /\ phase = "running"
    /\ \E f \in LabelSeqs : plugins = [i \in DOMAIN f |-> PluginNew(f[i])]
    /\ installed = DOMAIN plugins
    /\ systems = Registered(plugins)
    /\ World0

\* ------------------------------------------------------------- the host's world

\* A write to T through the host marks T changed for every system.
MarkChanged(e) ==
    [i \in SystemIds |-> [changed[i] EXCEPT ![e] = (i \in DOMAIN systems)]]

ClearChanged(e) ==
    [i \in SystemIds |-> [changed[i] EXCEPT ![e] = FALSE]]

Touch(e) == IF running = "none" THEN touched ELSE touched \cup {e}

\* Another operation spawns an entity with T = v.
Spawn(e, v) ==
    /\ phase = "running"
    /\ alive[e] = "unborn"
    /\ alive' = [alive EXCEPT ![e] = "alive"]
    /\ t' = [t EXCEPT ![e] = v]
    /\ changed' = MarkChanged(e)
    /\ touched' = Touch(e)
    /\ UNCHANGED <<derive, defaulted>>
    /\ UNCHANGED <<app, running, ran, queue, prev, hist, gprev, gqueue>>

\* Another operation despawns an entity: all its components go with it.
Despawn(e) ==
    /\ phase = "running"
    /\ alive[e] = "alive"
    /\ alive' = [alive EXCEPT ![e] = "dead"]
    /\ t' = [t EXCEPT ![e] = NoVal]
    /\ prev' = [prev EXCEPT ![e] = [l \in Labels |-> NoVal]]
    /\ gprev' = [gprev EXCEPT ![e] = [l \in Labels |-> NoVal]]
    /\ changed' = ClearChanged(e)
    /\ touched' = Touch(e)
    /\ seen' = [l \in Labels |-> [seen[l] EXCEPT ![e] = NoVal]]
    /\ UNCHANGED <<derive, defaulted>>
    /\ UNCHANGED <<app, running, ran, queue, snap, written, read, gqueue>>

\* Another operation assigns T through a mutable reference (marked changed).
SetT(e, v) ==
    /\ phase = "running"
    /\ alive[e] = "alive"
    /\ t[e] # NoVal
    /\ t' = [t EXCEPT ![e] = v]
    /\ changed' = MarkChanged(e)
    /\ touched' = Touch(e)
    /\ UNCHANGED <<derive, defaulted>>
    /\ UNCHANGED <<app, running, ran, queue, alive, prev, hist, gprev, gqueue>>

\* Another operation attaches T to an entity that carries none.
InsertT(e, v) ==
    /\ phase = "running"
    /\ alive[e] = "alive"
    /\ t[e] = NoVal
    /\ t' = [t EXCEPT ![e] = v]
    /\ changed' = MarkChanged(e)
    /\ touched' = Touch(e)
    /\ UNCHANGED <<derive, defaulted>>
    /\ UNCHANGED <<app, running, ran, queue, alive, prev, hist, gprev, gqueue>>

\* Another operation removes T from an entity.
RemoveT(e) ==
    /\ phase = "running"
    /\ alive[e] = "alive"
    /\ t[e] # NoVal
    /\ t' = [t EXCEPT ![e] = NoVal]
    /\ changed' = ClearChanged(e)
    /\ touched' = Touch(e)
    /\ UNCHANGED <<derive, defaulted>>
    /\ UNCHANGED <<app, running, ran, queue, alive, prev, hist, gprev, gqueue>>

\* ------------------------------------------------------------- a run of a schedule

\* The host starts a run of schedule l.
BeginRun(l) ==
    /\ phase = "running"
    /\ running = "none"
    /\ running' = l
    /\ ran' = {}
    /\ snap' = [t |-> t, prev |-> prev,
                changed |-> {e \in Entities :
                                \E i \in SystemsAt(l) : changed[i][e]},
                alive |-> {e \in Entities : alive[e] = "alive"}]
    /\ touched' = {}
    /\ written' = [e \in Entities |-> {}]
    /\ UNCHANGED <<derive, defaulted>>
    /\ UNCHANGED <<app, queue, alive, t, prev, changed, seen, read, gprev,
                   gqueue>>

\* Mutant: the filter lacks Changed<T>.
UpdateFilterWithoutOnly(p, i, e) == p[e][PreviousT] = NoVal

\* Mutant: no filter, every entity carrying T is written in every run.
UpdateFilterNone(p, i, e) == TRUE

\* UpdateFilter<T> = Or<(Without<Previous<T>>, Changed<T>)>, for system i
\* over the store p.
UpdateFilter(p, i, e) ==
    \/ p[e][PreviousT] = NoVal
    \/ changed[i][e]

\* Mutant: the query does not ask for &T.
MatchesWithoutT(p, i) ==
    {e \in Entities : alive[e] = "alive" /\ UpdateFilter(p, i, e)}

\* Query<(Entity, &T), UpdateFilter<T>>: the entities system i iterates.
Matches(p, i) ==
    {e \in Entities :
        alive[e] = "alive" /\ t[e] # NoVal /\ UpdateFilter(p, i, e)}

\* Mutant: update wraps the value the record holds, when it holds one.
WrappedStale(e) ==
    IF prev[e][PreviousT] # NoVal THEN prev[e][PreviousT] ELSE t[e]

\* The value update wraps: Previous::<T>::new(t.clone()).
Wrapped(e) == t[e]

\* The commands the loop of update queues: one insert per matching entity.
RECURSIVE Inserts(_, _, _)
Inserts(p, i, n) ==
    IF n = 0 THEN <<>>
    ELSE IF n \in Matches(p, i)
         THEN Append(Inserts(p, i, n - 1),
                     [entity |-> n, value |-> Wrapped(n)])
         ELSE Inserts(p, i, n - 1)

\* System i, update::<T>, runs: the host hands it the query's matches, it
\* queues its commands, and the host moves the system's last-run tick.
Update(i) ==
    /\ phase = "running"
    /\ running # "none"
    /\ i \in SystemsAt(running)
    /\ i \notin ran
    /\ queue' = [queue EXCEPT ![i] = Inserts(prev, i, NumEntities)]
    /\ gqueue' = IF Primary(i)
                 THEN [gqueue EXCEPT ![i] = Inserts(gprev, i, NumEntities)]
                 ELSE gqueue
    /\ changed' = [changed EXCEPT ![i] = [e \in Entities |-> FALSE]]
    /\ ran' = ran \cup {i}
    /\ read' = [read EXCEPT ![i] =
                  [t |-> t,
                   had |-> {e \in Entities : prev[e][running] # NoVal},
                   changed |-> {e \in Entities : changed[i][e]},
                   touched |-> touched,
                   matched |-> Matches(prev, i)]]
    /\ UNCHANGED <<derive, defaulted>>
    /\ UNCHANGED <<app, running, alive, t, prev, snap, touched, written,
                   seen, gprev>>

\* The component the queued insert writes on an entity.
InsertTarget == PreviousT

\* Mutant: the insert takes the value of T when the queue is applied.
RECURSIVE AppliedLate(_, _)
AppliedLate(q, p) ==
    IF q = <<>> THEN p
    ELSE LET c == Head(q)
         IN  AppliedLate(Tail(q),
                         IF alive[c.entity] = "alive"
                         THEN [p EXCEPT ![c.entity][InsertTarget] =
                                 IF t[c.entity] # NoVal THEN t[c.entity]
                                 ELSE c.value]
                         ELSE p)

\* The store after the commands of q were applied, in order, to store p.
RECURSIVE Applied(_, _)
Applied(q, p) ==
    IF q = <<>> THEN p
    ELSE LET c == Head(q)
         IN  Applied(Tail(q),
                     IF alive[c.entity] = "alive"
                     THEN [p EXCEPT ![c.entity][InsertTarget] = c.value]
                     ELSE p)

\* The entities a queue writes.
Targets(q) ==
    {q[k].entity : k \in {k \in DOMAIN q : alive[q[k].entity] = "alive"}}

\* The host applies the command queue of system i.  An insert whose entity
\* was despawned since it was queued is, in this outcome, reported and
\* dropped by the host's error handler.
ApplyDeferred(i) ==
    /\ phase = "running"
    /\ running # "none"
    /\ i \in ran
    /\ queue[i] # <<>>
    /\ prev' = Applied(queue[i], prev)
    /\ gprev' = Applied(gqueue[i], gprev)
    /\ written' = [e \in Entities |->
                     IF e \in Targets(queue[i])
                     THEN written[e] \cup {InsertTarget} ELSE written[e]]
    /\ queue' = [queue EXCEPT ![i] = <<>>]
    /\ gqueue' = [gqueue EXCEPT ![i] = <<>>]
    /\ UNCHANGED <<derive, defaulted>>
    /\ UNCHANGED <<app, running, ran, alive, t, changed, snap, touched,
                   seen, read>>

\* A command of q is for an entity that no longer exists.
HasDead(q) == \E k \in DOMAIN q : alive[q[k].entity] # "alive"

\* The commands of q before the first one whose entity no longer exists.
RECURSIVE LivePrefix(_)
LivePrefix(q) ==
    IF q = <<>> \/ alive[Head(q).entity] # "alive" THEN <<>>
    ELSE <<Head(q)>> \o LivePrefix(Tail(q))

\* The host applies the command queue of system i and reaches an insert
\* whose entity was despawned since update queued it:
\* commands.entity(entity).insert(..) is the insert that panics on an entity
\* that does not exist (try_insert is the one that does not).  The commands
\* before it were applied, the rest never is; the run does not resume.
ApplyPanic(i) ==
    /\ phase = "running"
    /\ running # "none"
    /\ i \in ran
    /\ HasDead(queue[i])
    /\ phase' = "panicked"
    /\ prev' = Applied(LivePrefix(queue[i]), prev)
    /\ written' = [e \in Entities |->
                     IF e \in Targets(LivePrefix(queue[i]))
                     THEN written[e] \cup {InsertTarget} ELSE written[e]]
    /\ queue' = [queue EXCEPT ![i] =
                   SubSeq(queue[i], Len(LivePrefix(queue[i])) + 1,
                          Len(queue[i]))]
    /\ UNCHANGED <<derive, defaulted>>
    /\ UNCHANGED <<plugins, installed, systems, running, ran, alive, t,
                   changed, snap, touched, seen, read, gprev, gqueue>>

\* Every system of the running schedule ran and every queue is applied.
RunComplete ==
    /\ running # "none"
    /\ SystemsAt(running) \subseteq ran
    /\ \A i \in SystemsAt(running) : queue[i] = <<>>

\* The run is over: the host leaves the schedule.
EndRun ==
    /\ phase = "running"
    /\ RunComplete
    /\ running' = "none"
    /\ ran' = {}
    /\ snap' = NoSnap
    /\ touched' = {}
    /\ written' = [e \in Entities |-> {}]
    /\ read' = [i \in SystemIds |-> NoRead]
    /\ seen' = IF SystemsAt(running) = {} THEN seen
               ELSE [seen EXCEPT ![running] =
                       [e \in Entities |->
                          IF e \notin touched /\ alive[e] = "alive"
                          THEN t[e] ELSE NoVal]]
    /\ UNCHANGED <<derive, defaulted>>
    /\ UNCHANGED <<app, queue, alive, t, prev, changed, gprev, gqueue>>

\* The assembly of an App, up to App::run().
NextApp ==
    \/ \E l \in Labels : New(l)
    \/ \E S \in Labels : Default(S)
    \/ \E p \in 1..MaxPlugins : Build(p)
    \/ Run

\* The running App: the host runs schedules, other operations act on the world.
Next ==
    \/ \E e \in Entities, v \in Val : Spawn(e, v)
    \/ \E e \in Entities : Despawn(e)
    \/ \E e \in Entities, v \in Val : SetT(e, v)
    \/ \E e \in Entities, v \in Val : InsertT(e, v)
    \/ \E e \in Entities : RemoveT(e)
    \/ \E l \in Labels : BeginRun(l)
    \/ \E i \in SystemIds : Update(i)
    \/ \E i \in SystemIds : ApplyDeferred(i)
    \/ \E i \in SystemIds : ApplyPanic(i)
    \/ EndRun

Spec == Init /\ [][Next]_vars

\* An App from App::new() on: its assembly, then its run.
SpecFull == InitApp /\ [][NextApp \/ Next]_vars

\* A step of the host in the run of a schedule.
RunStep ==
    \/ \E i \in SystemIds : Update(i) \/ ApplyDeferred(i) \/ ApplyPanic(i)
    \/ EndRun

\* The host does not abandon a run: as long as a step of the run can be
\* taken, one is, whatever other operations do meanwhile.
SpecLive == Spec /\ WF_vars(RunStep)

\* The compiler expands #[derive(DefaultSchedule)] on an item of a crate.
NextDerive == Derive

SpecDerive == InitApp /\ [][NextDerive]_vars

\* ------------------------------------------------------------- claims

\* Between runs of l: no run of l is going on.
Between(l) == running # l

\* C1 (as claimed): between two consecutive runs of S, a Previous<T,S>
\* record on an entity that carried T at the earlier run holds the value T
\* had at that run, not a value assigned to T later.
C1_PreviousIsValueAtLastRun ==
    \A l \in Labels, e \in Entities :
        (Between(l) /\ seen[l][e] # NoVal /\ prev[e][l] # NoVal)
            => prev[e][l] = seen[l][e]

\* C2 (as claimed): whatever schedule S the plugin was built with, an entity
\* that carries T and no Previous<T,S> when a run of S begins, and that no
\* other operation acts on during the run, carries at the end of the run a
\* Previous<T,S> that wraps its T.
C2_FirstObservation ==
    \A e \in Entities :
        (/\ RunComplete
         /\ SystemsAt(running) # {}
         /\ e \in snap.alive
         /\ e \notin touched
         /\ snap.t[e] # NoVal
         /\ snap.prev[e][running] = NoVal)
            => prev[e][running] = snap.t[e]

\* Two plugins were installed at distinct schedules.
TwoSchedules ==
    \E i, j \in DOMAIN systems : systems[i].schedule # systems[j].schedule

\* C3: an update system of S finds an entity carrying T and Previous<T,S>
\* with T marked changed: when the run of S is complete, the entity, if it
\* still exists, carries a Previous<T,S> wrapping the T value an update
\* system of S read in this run, whatever the record held before.
C3_ChangePropagation ==
    \A e \in Entities, i \in SystemsAt(running) :
        (/\ RunComplete
         /\ alive[e] = "alive"
         /\ read[i].t[e] # NoVal
         /\ e \in read[i].had
         /\ e \in read[i].changed)
            => \E j \in SystemsAt(running) :
                  /\ read[j].t[e] # NoVal
                  /\ prev[e][running] = read[j].t[e]

\* C3 witness: a run is complete in which the record held a value other than
\* the changed T, and now holds the new T value.
C3_Witness ==
    \E e \in Entities, i \in SystemsAt(running) :
        /\ RunComplete
        /\ alive[e] = "alive"
        /\ e \in read[i].had
        /\ e \in read[i].changed
        /\ read[i].t[e] # NoVal
        /\ snap.prev[e][running] # NoVal
        /\ snap.prev[e][running] # read[i].t[e]
        /\ prev[e][running] = read[i].t[e]

\* The commands for e in the queues of the systems of the running schedule.
Pending(e) ==
    {<<i, k>> \in SystemsAt(running) \X (1..NumEntities) :
        k \in DOMAIN queue[i] /\ queue[i][k].entity = e}

\* C4: an entity carries Previous<T,S> and its T is not marked changed when
\* a run of S begins, and no other operation acts on it during the run: the
\* run queues no write for it and writes none, and its records stay as they
\* were.
C4_Stability ==
    \A e \in Entities :
        (/\ running # "none"
         /\ SystemsAt(running) # {}
         /\ e \in snap.alive
         /\ e \notin touched
         /\ snap.prev[e][running] # NoVal
         /\ e \notin snap.changed)
            => /\ Pending(e) = {}
               /\ written[e] = {}
               /\ prev[e] = snap.prev[e]

\* C4 witness: a run is complete over an entity that carries T and the
\* record, unchanged since the record was written; nothing was written.
C4_Witness ==
    \E e \in Entities :
        /\ RunComplete
        /\ SystemsAt(running) # {}
        /\ e \in snap.alive
        /\ e \notin touched
        /\ snap.t[e] # NoVal
        /\ snap.prev[e][running] # NoVal
        /\ e \notin snap.changed
        /\ written[e] = {}

\* C5 (as claimed): with plugins at two distinct schedules, a run of S gives
\* every entity carrying T its Previous<T,S>, writes no Previous<T,S2> of
\* another label S2, and leaves those records as they were.
C5_Independence ==
    (TwoSchedules /\ running # "none" /\ SystemsAt(running) # {}) =>
        \A e \in Entities :
            /\ written[e] \subseteq {running}
            /\ alive[e] = "alive" =>
                  \A l \in Labels \ {running} : prev[e][l] = snap.prev[e][l]
            /\ (RunComplete /\ e \notin touched /\ t[e] # NoVal)
                  => prev[e][running] # NoVal

\* C6 (as claimed): a Previous<T,S> record is attached, and given a value,
\* only by a run of S, and the value is a T value the entity held in that run.
C6_AttachedOnlyByRunOfS ==
    [][\A e \in Entities, l \in Labels :
          (prev'[e][l] # prev[e][l] /\ prev'[e][l] # NoVal)
              => /\ running = l
                 /\ e \in touched \/ prev'[e][l] = snap.t[e]]_vars

Duplicate == \E i \in DOMAIN systems : ~Primary(i)

\* The schedule being run holds two registrations of the update system.
DuplicateRunning == \E i \in SystemsAt(running) : ~Primary(i)

\* C9 (as claimed): with a system registered twice, after every run the
\* Previous records are those a single registration gives.
C9_DuplicateSameStore ==
    (Duplicate /\ running = "none") => prev = gprev

\* C9 (amended): with a system registered twice in S, when a run of S is
\* complete every entity that carries T and that no other operation acted
\* on during the run has the Previous records a single registration gives
\* it, and every write queued for it in the run carries the same value,
\* its T.
C9_DuplicateHarmless ==
    \A e \in Entities :
        (DuplicateRunning /\ e \notin touched /\ t[e] # NoVal) =>
            /\ RunComplete => prev[e] = gprev[e]
            /\ \A i \in SystemsAt(running) :
                  \A k \in DOMAIN queue[i] :
                      queue[i][k].entity = e => queue[i][k].value = snap.t[e]

\* C9 witness: both registrations of a schedule wrote an entity's record
\* in this run, and the record is the one a single registration gives.
C9_Witness ==
    \E e \in Entities, i, j \in SystemsAt(running) :
        /\ RunComplete
        /\ i # j
        /\ e \notin touched
        /\ e \in read[i].matched
        /\ e \in read[j].matched
        /\ prev[e][InsertTarget] = t[e]
        /\ prev[e] = gprev[e]

\* C8 (as claimed): the update operation registered for (T,S) changes
\* nothing but the Previous<T,S> records of entities its query matched: no T value, no
\* other system's view of T's change flag, no entity's existence, no record
\* of another type.
C8_Frame ==
    [][\A i \in DOMAIN systems :
          (Update(i) \/ ApplyDeferred(i)) =>
              /\ t' = t
              /\ alive' = alive
              /\ \A j \in SystemIds \ {i} : changed'[j] = changed[j]
              /\ \A e \in Entities, l \in Labels :
                    prev'[e][l] # prev[e][l]
                        => l = systems[i].schedule /\ e \in read[i].matched]_vars

\* C10: PreviousPlugin::new stores the schedule it is given; each build
\* registers exactly one system, in the schedule the plugin stores, and
\* leaves the plugin as it was; no step removes a registered system, alters
\* a constructed plugin or makes an installed plugin not installed.
C10_Installation ==
    [][/\ \A l \in Labels :
            New(l) => /\ plugins' = Append(plugins, [schedule |-> l])
                      /\ systems' = systems
       /\ \A p \in 1..MaxPlugins :
            Build(p) => /\ systems' = Append(systems,
                                             [schedule |-> plugins[p].schedule])
                        /\ plugins' = plugins
       /\ Len(systems') >= Len(systems)
       /\ SubSeq(systems', 1, Len(systems)) = systems
       /\ Len(plugins') >= Len(plugins)
       /\ SubSeq(plugins', 1, Len(plugins)) = plugins
       /\ installed \subseteq installed']_vars

\* C10 witness: a plugin constructed with a schedule other than the default
\* was built twice, and the App, now running, holds both systems there.
C10_Witness ==
    /\ phase = "running"
    /\ running = "FixedLast"
    /\ \E p \in installed : plugins[p].schedule = "FixedLast"
    /\ Cardinality(SystemsAt("FixedLast")) = 2

\* The built-in synchronization points.
BuiltInPoints ==
    {"PreStartup", "Startup", "PostStartup", "Main", "First", "PreUpdate",
     "Update", "PostUpdate", "Last", "FixedMain", "FixedFirst",
     "FixedPreUpdate", "FixedUpdate", "FixedPostUpdate", "FixedLast"}

\* C11: every built-in synchronization point and every unit-struct label
\* with a derived DefaultSchedule has exactly one impl, for that type and
\* returning that type's one value; and a step of PreviousPlugin::default()
\* for S leaves the App exactly as PreviousPlugin::new(S) leaves it: the same
\* plugin, hence the same system at the same schedule at build and the same
\* records after every run.
C11_DefaultResolution ==
    [][\A S \in Labels :
          Default(S) =>
              /\ \A R \in BuiltInPoints \cup UserLabels :
                    /\ Cardinality(DefaultScheduleImpls(R)) = 1
                    /\ \A im \in DefaultScheduleImpls(R) :
                          im.self_ty = R /\ im.returns = R
                    /\ DefaultSchedule(R) = R
              /\ plugins' = Append(plugins, PluginNew(S))
              /\ UNCHANGED <<phase, installed, systems, running, ran,
                             queue, alive, t, prev, changed, snap, touched,
                             written, seen, read, gprev, gqueue, input,
                             output>>]_vars

\* C11 witness: a plugin made by default() for the derived label was built,
\* and a run of that label, now complete, wrote an entity's record.
C11_Witness ==
    \E p \in defaulted \cap installed, e \in Entities :
        /\ plugins[p].schedule = "AfterGameLogic"
        /\ running = "AfterGameLogic"
        /\ RunComplete
        /\ written[e] # {}

\* C12: the derive emits a DefaultSchedule impl, one, exactly for a unit
\* struct; for a struct with named or unnamed fields (none or some), an enum
\* or a union it emits the compile error "The macro only works on unit
\* structs." and no impl.
C12_OnlyUnitStructs ==
    input # NoInput =>
        IF input.shape.data = "struct" /\ input.shape.fields = "unit"
        THEN /\ output.errors = <<>>
             /\ Len(output.impls) = 1
             /\ output.impls[1].trait = "::bevy_previous::DefaultSchedule"
             /\ output.impls[1].self_ty = input.ident
        ELSE /\ output.errors = <<"The macro only works on unit structs.">>
             /\ output.impls = <<>>

\* C12 witness: the derive was expanded on a struct with braces and no
\* field, with generic parameters, and gave the error.
C12_Witness ==
    /\ input # NoInput
    /\ input.shape.data = "struct"
    /\ input.shape.fields = "named"
    /\ input.shape.nfields = 0
    /\ input.params # <<>>
    /\ output.errors # <<>>

\* A parameter re-emitted as its name only: no bound, no default, no type
\* annotation (which the `const` keyword comes with).
Bare(g) == g.bounds = <<>> /\ g.default = <<>> /\ g.ty = <<>>

\* C13 (as claimed): for a unit struct with generic parameters the impl
\* declares the parameters as the struct does, carries its where-clause, and
\* implements the trait for the struct applied to the same parameters, in
\* order, each as its bare name.
C13_GenericPassthrough ==
    (/\ input # NoInput
     /\ input.shape.data = "struct" /\ input.shape.fields = "unit"
     /\ input.params # <<>>) =>
        /\ Len(output.impls) = 1
        /\ output.impls[1].generics = input.params
        /\ output.impls[1].where = input.where
        /\ output.impls[1].self_ty = input.ident
        /\ DOMAIN output.impls[1].args = DOMAIN input.params
        /\ \A k \in DOMAIN input.params :
              /\ output.impls[1].args[k].ident = input.params[k].ident
              /\ Bare(output.impls[1].args[k])

\* A write of value v to entity e waits in the queue of system i.
Queued(i, e, v) ==
    \E k \in DOMAIN queue[i] : queue[i][k].entity = e /\ queue[i][k].value = v

\* C14 (as claimed): no tracked change is lost.  When a run of S is
\* complete, an entity that carried T marked changed when an update system
\* of S read it carries a Previous<T,S> wrapping the T value an update
\* system of S read in this run; and at every moment an entity whose T
\* differs from its Previous<T,S>, or that has none, with a plugin installed
\* at S, is one the update system of S will match at its next run or has a
\* write of its T queued for: whenever the change was made, however often,
\* and however long S does not run.
C14_NoChangeLost ==
    \A e \in Entities, l \in Labels :
        (alive[e] = "alive" /\ t[e] # NoVal /\ SystemsAt(l) # {}) =>
            /\ (/\ running = l
                /\ RunComplete
                /\ \E i \in SystemsAt(l) :
                      read[i].t[e] # NoVal /\ e \in read[i].changed)
                  => \E j \in SystemsAt(l) :
                        /\ read[j].t[e] # NoVal
                        /\ prev[e][l] = read[j].t[e]
            /\ prev[e][l] # t[e]
                  => \E i \in SystemsAt(l) :
                        \/ changed[i][e]
                        \/ Queued(i, e, t[e])

\* What C15 says of every step, whatever T is at the step: a record that is
\* attached is removed only with its entity, and is given another value only
\* by the crate's system applying its queue.
RecordKept(e, l) ==
    /\ prev'[e][l] = NoVal => alive'[e] = "dead"
    /\ prev'[e][l] \notin {prev[e][l], NoVal}
          => \E i \in DOMAIN systems : ApplyDeferred(i) \/ ApplyPanic(i)

\* What C15 says of a complete run of l: a record on an entity whose T an
\* update system found attached and marked changed, as T attached again is,
\* wraps a T value read in this run.
Reattached(e, l) ==
    (/\ running = l
     /\ RunComplete
     /\ alive[e] = "alive"
     /\ \E i \in SystemsAt(l) :
           read[i].t[e] # NoVal /\ e \in read[i].changed /\ e \in read[i].had)
        => \E j \in SystemsAt(l) :
              read[j].t[e] # NoVal /\ prev[e][l] = read[j].t[e]

\* C15 (as claimed): an attached Previous record is never removed by the
\* system and only overwritten by it; while the entity carries no T no step
\* rewrites the record, it keeps its last written value; once T is attached
\* again the next run of S overwrites it with the new T value.
C15_Lifecycle ==
    [][\A e \in Entities, l \in Labels :
          prev[e][l] # NoVal =>
              /\ RecordKept(e, l)
              /\ (t[e] = NoVal /\ alive'[e] = "alive")
                    => prev'[e][l] = prev[e][l]
              /\ Reattached(e, l)]_vars

\* C15 (amended): an attached Previous record is never removed by the
\* system and only overwritten by it; an update system that runs while the
\* entity carries no T queues no write for it, and every write applied was
\* queued by an update system that read the entity's T, with the value read
\* (so a record is rewritten while T is absent only by a write queued
\* earlier in the same run, before T was removed); once T is attached again
\* the next run of S overwrites the record with the new T value.
C15_LifecycleRead ==
    [][\A e \in Entities, l \in Labels :
          /\ \A i \in DOMAIN systems :
                /\ (Update(i) /\ t[e] = NoVal)
                      => \A k \in DOMAIN queue'[i] : queue'[i][k].entity # e
                /\ ((ApplyDeferred(i) \/ ApplyPanic(i))
                    /\ prev'[e][l] # prev[e][l])
                      => /\ read[i].t[e] # NoVal
                         /\ prev'[e][l] = read[i].t[e]
          /\ prev[e][l] # NoVal =>
                /\ RecordKept(e, l)
                /\ (t[e] = NoVal /\ alive'[e] = "alive"
                    /\ prev'[e][l] # prev[e][l])
                      => \E i \in SystemsAt(running) :
                            /\ ApplyDeferred(i) \/ ApplyPanic(i)
                            /\ e \in read[i].matched
                            /\ e \in touched
                /\ Reattached(e, l)]_vars

\* C15 witness: in a complete run an entity had its record and no T when
\* the run began; one update system ran while T was absent and queued
\* nothing for it; T was attached again and the other update system
\* overwrote the record with the new T value.
C15_Witness ==
    \E e \in Entities, i, j \in SystemsAt(running) :
        /\ RunComplete
        /\ e \in snap.alive
        /\ snap.t[e] = NoVal
        /\ snap.prev[e][InsertTarget] # NoVal
        /\ i \in ran
        /\ read[i].t[e] = NoVal
        /\ e \notin read[i].matched
        /\ read[j].t[e] # NoVal
        /\ read[j].t[e] # snap.prev[e][InsertTarget]
        /\ prev[e][InsertTarget] = read[j].t[e]

\* What C16 says of every state: the queue of an update system that ran
\* holds one write per entity its query matched, until the host applies it;
\* no write is queued outside a run, nor at a schedule other than the one
\* being run; and a record is only ever on an entity that exists.
RunToCompletionState ==
    /\ \A i \in SystemsAt(running) :
          (phase = "running" /\ i \in ran /\ queue[i] # <<>>) =>
              /\ Len(queue[i]) = Cardinality(read[i].matched)
              /\ {queue[i][k].entity : k \in DOMAIN queue[i]} = read[i].matched
    /\ \A i \in SystemIds :
          (running = "none" \/ i \notin SystemsAt(running)) => queue[i] = <<>>
    /\ \A e \in Entities, l \in Labels :
          prev[e][l] # NoVal => alive[e] = "alive"

\* C16 (as claimed): every run of S terminates; the update operation visits
\* each matching entity exactly once; every write the run queued is applied
\* when the run is over, none is pending when another run starts; a queued
\* write is applied only to an entity that still exists.
C16_RunToCompletion ==
    /\ []RunToCompletionState
    /\ (running # "none") ~> (running = "none")

====
